---- MODULE Spec2Model ----
(***************************************************************************)
(* A model of the two scripts of the repository:                           *)
(*   - torch/ao/quantization/backend_config/executorch.py, the builder of  *)
(*     the executorch BackendConfig (checked under SpecExecutorch);        *)
(*   - aten_docgen.py, the Dialect reporting script (checked under         *)
(*     SpecDialect).                                                       *)
(* Python objects are records; None is the empty tuple and a present       *)
(* optional value x is the one-element tuple <<x>>.                        *)
(***************************************************************************)
EXTENDS Integers, Sequences, FiniteSets, TLC

VARIABLES
    dtypeObjs,      \* executorch.py module globals: name -> DTypeConfig object
    heap,           \* the BackendConfig objects allocated so far, by id
    cur,            \* caller -> id of the BackendConfig its call is building (0: none)
    stage,          \* caller -> number of set_backend_pattern_configs calls done
    returned,       \* ids of the BackendConfigs returned, in order of return
    nativeFns,      \* aten_docgen: the native functions parse_native_yaml gives
    tabulateOk,     \* aten_docgen: whether the import of tabulate worked
    dialect,        \* aten_docgen: the Dialect object d (None before construction)
    out,            \* aten_docgen: what has been printed, in order
    calls,          \* aten_docgen: the operations called on d, with their outcome
    mpc             \* aten_docgen: position in the module's top-level code

execVars == <<dtypeObjs, heap, cur, stage, returned>>
docVars == <<nativeFns, tabulateOk, dialect, out, calls, mpc>>
vars == <<dtypeObjs, heap, cur, stage, returned,
          nativeFns, tabulateOk, dialect, out, calls, mpc>>

None == <<>>
Some(x) == <<x>>

\* Bounds of the model.
NumCallers == 2
MaxConfigs == 3
MaxCalls == 3

Callers == 1..NumCallers

(***************************************************************************)
(* backend_config.py: the framework classes executorch.py builds.          *)
(***************************************************************************)

\* DTypeWithConstraints(dtype, quant_min_lower_bound, quant_max_upper_bound,
\*                      scale_min_lower_bound), every bound optional.
DTypeWithConstraints(dtype, qmin, qmax, smin) ==
    [dtype |-> dtype, quant_min_lower_bound |-> qmin,
     quant_max_upper_bound |-> qmax, scale_min_lower_bound |-> smin]

\* A plain torch.dtype given to DTypeConfig is wrapped without constraints.
PlainDType(dtype) == DTypeWithConstraints(dtype, None, None, None)

DTypeConfig(input, output, weight, bias, dynamic) ==
    [input_dtype |-> input, output_dtype |-> output, weight_dtype |-> weight,
     bias_dtype |-> bias, is_dynamic |-> dynamic]

\* BackendPatternConfig(pattern): the defaults of its constructor.
BackendPatternConfig(pattern) ==
    [pattern |-> pattern,
     observation_type |-> "OUTPUT_USE_DIFFERENT_OBSERVER_AS_INPUT",
     dtype_configs |-> <<>>,
     root_module |-> "None",
     reference_quantized_module |-> "None",
     qat_module |-> "None",
     fuser_method |-> None,
     fused_module |-> "None",
     input_type_to_index |-> {},
     num_tensor_args_to_observation_type |-> {}]

set_observation_type(p, v) == [p EXCEPT !.observation_type = v]
set_dtype_configs(p, v) == [p EXCEPT !.dtype_configs = v]
set_root_module(p, v) == [p EXCEPT !.root_module = v]
set_reference_quantized_module(p, v) == [p EXCEPT !.reference_quantized_module = v]
set_qat_module(p, v) == [p EXCEPT !.qat_module = v]
set_fuser_method(p, v) == [p EXCEPT !.fuser_method = Some(v)]
set_fused_module(p, v) == [p EXCEPT !.fused_module = v]
set_input_type_to_index(p, v) == [p EXCEPT !.input_type_to_index = v]
set_num_tensor_args_to_observation_type(p, v) ==
    [p EXCEPT !.num_tensor_args_to_observation_type = v]

\* BackendConfig(name): an empty pattern table.
BackendConfig(name) == [name |-> name, configs |-> <<>>]

\* BackendConfig.set_backend_pattern_config: the table is a dict keyed by the
\* pattern; a key already present keeps its place and takes the new config.
set_backend_pattern_config(b, conf) ==
    IF \E i \in 1..Len(b.configs) : b.configs[i].pattern = conf.pattern
    THEN [b EXCEPT !.configs =
            [i \in 1..Len(b.configs) |->
                IF b.configs[i].pattern = conf.pattern THEN conf ELSE b.configs[i]]]
    ELSE [b EXCEPT !.configs = Append(b.configs, conf)]

RECURSIVE set_backend_pattern_configs(_, _)
set_backend_pattern_configs(b, confs) ==
    IF confs = <<>> THEN b
    ELSE set_backend_pattern_configs(set_backend_pattern_config(b, Head(confs)),
                                     Tail(confs))

\* _common_operator_config_utils._Conv2dMetadata
Conv2dMetadata ==
    [root |-> "torch.nn.Conv2d",
     func |-> "F.conv2d",
     reference |-> "nnqr.Conv2d",
     qat |-> "nnqat.Conv2d",
     relu_qat |-> "nniqat.ConvReLU2d",
     fused_conv_relu |-> "nni.ConvReLU2d"]

\* fuser_method_mappings._reverse_sequential_wrapper2(sequential): a fuser
\* method that wraps the fused class.
reverse_sequential_wrapper2(sequential) ==
    [wrapper |-> "_reverse_sequential_wrapper2", sequential |-> sequential]

(***************************************************************************)
(* executorch.py: the module level dtype configs.                          *)
(***************************************************************************)

\* 2 ** -12 as a fraction.
Pow2Neg(n) == [num |-> 1, den |-> 2 ^ n]

executorch_weighted_op_int8_dtype_config ==
    DTypeConfig(PlainDType("torch.quint8"), PlainDType("torch.quint8"),
                PlainDType("torch.qint8"), "torch.float", None)

executorch_default_op_quint8_dtype_config ==
    DTypeConfig(PlainDType("torch.quint8"), PlainDType("torch.quint8"),
                PlainDType("None"), "None", None)

executorch_default_dynamic_int8_dtype_config ==
    DTypeConfig(PlainDType("torch.quint8"), PlainDType("torch.float"),
                PlainDType("torch.qint8"), "torch.float", Some(TRUE))

executorch_default_dynamic_float16_dtype_config ==
    DTypeConfig(PlainDType("torch.float16"), PlainDType("torch.float"),
                PlainDType("torch.float16"), "torch.float", Some(TRUE))

executorch_act_qint8_scale_min_2_neg_12 ==
    DTypeWithConstraints("torch.qint8", None, None, Some(Pow2Neg(12)))

\* A variant that leaves -128 in the weight's range.
executorch_weight_qint8_neg_128_to_127 ==
    DTypeWithConstraints("torch.qint8", Some(-128), Some(127), Some(Pow2Neg(12)))

executorch_weight_qint8_neg_127_to_127_scale_min_2_neg_12 ==
    DTypeWithConstraints("torch.qint8", Some(-127), Some(127), Some(Pow2Neg(12)))

executorch_weighted_op_qint8_symmetric_dtype_config ==
    DTypeConfig(executorch_act_qint8_scale_min_2_neg_12,
                executorch_act_qint8_scale_min_2_neg_12,
                executorch_weight_qint8_neg_127_to_127_scale_min_2_neg_12,
                "torch.float", None)

executorch_default_op_qint8_symmetric_dtype_config ==
    DTypeConfig(executorch_act_qint8_scale_min_2_neg_12,
                executorch_act_qint8_scale_min_2_neg_12,
                PlainDType("None"), "None", None)

\* The names of the module level DTypeConfig objects.
DTypeNames ==
    {"executorch_weighted_op_int8_dtype_config",
     "executorch_default_op_quint8_dtype_config",
     "executorch_default_dynamic_int8_dtype_config",
     "executorch_default_dynamic_float16_dtype_config",
     "executorch_weighted_op_qint8_symmetric_dtype_config",
     "executorch_default_op_qint8_symmetric_dtype_config"}

\* The module globals after import: each name bound to its object.
ModuleDTypes ==
    [n \in DTypeNames |->
        CASE n = "executorch_weighted_op_int8_dtype_config" ->
                executorch_weighted_op_int8_dtype_config
          [] n = "executorch_default_op_quint8_dtype_config" ->
                executorch_default_op_quint8_dtype_config
          [] n = "executorch_default_dynamic_int8_dtype_config" ->
                executorch_default_dynamic_int8_dtype_config
          [] n = "executorch_default_dynamic_float16_dtype_config" ->
                executorch_default_dynamic_float16_dtype_config
          [] n = "executorch_weighted_op_qint8_symmetric_dtype_config" ->
                executorch_weighted_op_qint8_symmetric_dtype_config
          [] OTHER ->
                executorch_default_op_qint8_symmetric_dtype_config]

(***************************************************************************)
(* executorch.py: the builders of the pattern configs.  A pattern is a     *)
(* tuple of operator names; a method name given as a string is "str:...".  *)
(* A pattern config holds references (names) to the module's dtype         *)
(* configs, as the Python lists do.                                        *)
(***************************************************************************)

_get_linear_configs ==
    LET observation_type == "OUTPUT_USE_DIFFERENT_OBSERVER_AS_INPUT"
        dtype_configs == <<"executorch_weighted_op_qint8_symmetric_dtype_config",
                           "executorch_weighted_op_int8_dtype_config",
                           "executorch_default_dynamic_int8_dtype_config",
                           "executorch_default_dynamic_float16_dtype_config">>
    IN  << set_qat_module(
             set_reference_quantized_module(
               set_root_module(
                 set_dtype_configs(
                   set_observation_type(BackendPatternConfig(<<"torch.nn.Linear">>),
                                        observation_type),
                   dtype_configs),
                 "torch.nn.Linear"),
               "nnqr.Linear"),
             "nnqat.Linear"),
           set_input_type_to_index(
             set_dtype_configs(
               set_observation_type(BackendPatternConfig(<<"F.linear">>),
                                    observation_type),
               dtype_configs),
             {<<"weight", 1>>, <<"bias", 2>>}) >>

\* The seven pattern configs of one conv family (the body of the loop).
ConvConfigsOf(convs) ==
    LET observation_type == "OUTPUT_USE_DIFFERENT_OBSERVER_AS_INPUT"
        dtype_configs == <<"executorch_weighted_op_qint8_symmetric_dtype_config",
                           "executorch_weighted_op_int8_dtype_config">>
    IN  << \* conv module
           set_qat_module(
             set_reference_quantized_module(
               set_root_module(
                 set_dtype_configs(
                   set_observation_type(BackendPatternConfig(<<convs.root>>),
                                        observation_type),
                   dtype_configs),
                 convs.root),
               convs.reference),
             convs.qat),
           \* functional conv
           set_input_type_to_index(
             set_dtype_configs(
               set_observation_type(BackendPatternConfig(<<convs.func>>),
                                    observation_type),
               dtype_configs),
             {<<"weight", 1>>, <<"bias", 2>>}),
           \* conv module + relu module
           set_fused_module(
             set_fuser_method(
               set_dtype_configs(
                 BackendPatternConfig(<<"torch.nn.ReLU", convs.root>>),
                 dtype_configs),
               reverse_sequential_wrapper2(convs.fused_conv_relu)),
             convs.fused_conv_relu),
           \* conv module + functional relu
           set_fused_module(
             set_fuser_method(
               set_dtype_configs(
                 BackendPatternConfig(<<"F.relu", convs.root>>),
                 dtype_configs),
               reverse_sequential_wrapper2(convs.fused_conv_relu)),
             convs.fused_conv_relu),
           \* fused conv relu module
           set_qat_module(
             set_reference_quantized_module(
               set_root_module(
                 set_dtype_configs(
                   set_observation_type(
                     BackendPatternConfig(<<convs.fused_conv_relu>>),
                     observation_type),
                   dtype_configs),
                 convs.root),
               convs.reference),
             convs.relu_qat),
           \* functional conv + relu module
           set_dtype_configs(
             set_observation_type(
               BackendPatternConfig(<<"torch.nn.ReLU", convs.func>>),
               observation_type),
             dtype_configs),
           \* functional conv + functional relu
           set_dtype_configs(
             set_observation_type(
               BackendPatternConfig(<<"F.relu", convs.func>>),
               observation_type),
             dtype_configs) >>

\* A variant that does not register the fused conv relu module.
_get_conv_configs_without_fused ==
    SelectSeq(ConvConfigsOf(Conv2dMetadata),
              LAMBDA p : p.pattern # <<Conv2dMetadata.fused_conv_relu>>)

\* for convs in [_Conv2dMetadata]: ...
_get_conv_configs == ConvConfigsOf(Conv2dMetadata)

_get_binary_ops_configs ==
    LET dtype_configs == <<"executorch_default_op_qint8_symmetric_dtype_config",
                           "executorch_weighted_op_int8_dtype_config">>
        num_tensor_args_to_observation_type_mapping ==
            {<<0, "OUTPUT_USE_DIFFERENT_OBSERVER_AS_INPUT">>,
             <<1, "OUTPUT_SHARE_OBSERVER_WITH_INPUT">>,
             <<2, "OUTPUT_USE_DIFFERENT_OBSERVER_AS_INPUT">>}
        ops == << <<"operator.add">>, <<"torch.add">> >>
    IN  [i \in 1..Len(ops) |->
            set_num_tensor_args_to_observation_type(
              set_dtype_configs(BackendPatternConfig(ops[i]), dtype_configs),
              num_tensor_args_to_observation_type_mapping)]

\* The operators whose output shares the quantization parameters of the input.
share_qparams_ops ==
    << <<"F.adaptive_avg_pool2d">>,
       <<"F.relu">>,
       <<"F.relu6">>,
       <<"torch.nn.AdaptiveAvgPool2d">>,
       <<"torch.squeeze">>,
       <<"str:permute">>,
       <<"str:reshape">>,
       <<"str:relu">>,
       <<"str:relu_">>,
       <<"str:squeeze">>,
       <<"str:squeeze_">> >>

\* A variant that gives the operators the weighted-op dtype configs.
_get_share_qparams_ops_configs_weighted ==
    [i \in 1..Len(share_qparams_ops) |->
        set_dtype_configs(
          set_observation_type(BackendPatternConfig(share_qparams_ops[i]),
                               "OUTPUT_SHARE_OBSERVER_WITH_INPUT"),
          <<"executorch_default_op_qint8_symmetric_dtype_config",
            "executorch_weighted_op_int8_dtype_config">>)]

_get_share_qparams_ops_configs ==
    LET observation_type == "OUTPUT_SHARE_OBSERVER_WITH_INPUT"
        dtype_configs == <<"executorch_default_op_qint8_symmetric_dtype_config",
                           "executorch_default_op_quint8_dtype_config">>
    IN  [i \in 1..Len(share_qparams_ops) |->
            set_dtype_configs(
              set_observation_type(BackendPatternConfig(share_qparams_ops[i]),
                                   observation_type),
              dtype_configs)]

_get_bn_configs ==
    LET observation_type == "OUTPUT_USE_DIFFERENT_OBSERVER_AS_INPUT"
        dtype_configs == <<"executorch_default_op_qint8_symmetric_dtype_config",
                           "executorch_default_op_quint8_dtype_config">>
    IN  << set_dtype_configs(
             set_observation_type(BackendPatternConfig(<<"nn.BatchNorm2d">>),
                                  observation_type),
             dtype_configs) >>

\* A variant whose dtype_configs list lives at module level and grows by the
\* two entries at every call.
_get_cat_configs_shared_list ==
    << set_dtype_configs(
         set_observation_type(BackendPatternConfig(<<"torch.cat">>),
                              "OUTPUT_SHARE_OBSERVER_WITH_INPUT"),
         [i \in 1..(2 * Len(heap)) |->
            IF i % 2 = 1
            THEN "executorch_default_op_qint8_symmetric_dtype_config"
            ELSE "executorch_default_op_quint8_dtype_config"]) >>

\* A variant that registers the cat config under the pattern of F.relu.
_get_cat_configs_relu_pattern ==
    << set_dtype_configs(
         set_observation_type(BackendPatternConfig(<<"F.relu">>),
                              "OUTPUT_SHARE_OBSERVER_WITH_INPUT"),
         <<"executorch_default_op_qint8_symmetric_dtype_config",
           "executorch_default_op_quint8_dtype_config">>) >>

_get_cat_configs ==
    LET dtype_configs == <<"executorch_default_op_qint8_symmetric_dtype_config",
                           "executorch_default_op_quint8_dtype_config">>
    IN  << set_dtype_configs(
             set_observation_type(BackendPatternConfig(<<"torch.cat">>),
                                  "OUTPUT_SHARE_OBSERVER_WITH_INPUT"),
             dtype_configs) >>

(***************************************************************************)
(* executorch.py: get_executorch_backend_config, one action per call of    *)
(* the chain.  Several callers may be inside the function at once; each    *)
(* builds the BackendConfig object its own call allocated.                 *)
(***************************************************************************)

\* The six groups, in the order get_executorch_backend_config sets them.
GroupConfigs(k) ==
    CASE k = 1 -> _get_linear_configs
      [] k = 2 -> _get_conv_configs
      [] k = 3 -> _get_binary_ops_configs
      [] k = 4 -> _get_share_qparams_ops_configs
      [] k = 5 -> _get_bn_configs
      [] OTHER -> _get_cat_configs

NumGroups == 6

\* BackendConfig("executorch"): a new object on the heap.
NewBackendConfig(c) ==
    /\ cur[c] = 0
    /\ Len(heap) < MaxConfigs
    /\ heap' = Append(heap, BackendConfig("executorch"))
    /\ cur' = [cur EXCEPT ![c] = Len(heap) + 1]
    /\ stage' = [stage EXCEPT ![c] = 0]
    /\ UNCHANGED <<dtypeObjs, returned>>
    /\ UNCHANGED docVars

\* .set_backend_pattern_configs(<builder k>()) on the object under construction.
SetGroup(c, k) ==
    /\ cur[c] # 0
    /\ stage[c] = k - 1
    /\ heap' = [heap EXCEPT ![cur[c]] =
                    set_backend_pattern_configs(heap[cur[c]], GroupConfigs(k))]
    /\ stage' = [stage EXCEPT ![c] = k]
    /\ UNCHANGED <<dtypeObjs, cur, returned>>
    /\ UNCHANGED docVars

SetLinear(c) == SetGroup(c, 1)
SetConv(c) == SetGroup(c, 2)
SetBinaryOps(c) == SetGroup(c, 3)
SetShareQparamsOps(c) == SetGroup(c, 4)
SetBn(c) == SetGroup(c, 5)
SetCat(c) == SetGroup(c, 6)

\* return: the caller receives the object.
Return(c) ==
    /\ cur[c] # 0
    /\ stage[c] = NumGroups
    /\ returned' = Append(returned, cur[c])
    /\ cur' = [cur EXCEPT ![c] = 0]
    /\ stage' = [stage EXCEPT ![c] = 0]
    /\ UNCHANGED <<dtypeObjs, heap>>
    /\ UNCHANGED docVars

\* executorch.py imported, no call made; aten_docgen not run.
InitExecutorch ==
    /\ dtypeObjs = ModuleDTypes
    /\ heap = <<>>
    /\ cur = [c \in Callers |-> 0]
    /\ stage = [c \in Callers |-> 0]
    /\ returned = <<>>
    /\ nativeFns = {}
    /\ tabulateOk = TRUE
    /\ dialect = None
    /\ out = <<>>
    /\ calls = <<>>
    /\ mpc = "import"

NextExecutorch ==
    \E c \in Callers :
        \/ NewBackendConfig(c)
        \/ SetLinear(c)
        \/ SetConv(c)
        \/ SetBinaryOps(c)
        \/ SetShareQparamsOps(c)
        \/ SetBn(c)
        \/ SetCat(c)
        \/ Return(c)

(***************************************************************************)
(* torchgen: the records parse_native_yaml gives and the two groupings.    *)
(***************************************************************************)

\* NativeFunction: func.name, tags, func.signature(), func.view_signature(),
\* func.kind(), view_schema_kind, func.is_functional_fn() (the base name holds
\* "functional") and func.aliased_return_names().
NativeFunction(name, sig, vsig, kind, vkind, isfn, aliased) ==
    [name |-> name, sig |-> sig, view_sig |-> vsig, kind |-> kind,
     view_kind |-> vkind, is_functional_fn |-> isfn,
     aliased_return_names |-> aliased, tags |-> {}]

\* The operators a native_functions.yaml of the model may declare.
Universe ==
    { NativeFunction("add.Tensor", "add", "add", "functional", "non_aliasing",
                     FALSE, <<"None">>),
      NativeFunction("add_.Tensor", "add", "add", "inplace", "non_aliasing",
                     FALSE, <<"self">>),
      NativeFunction("add.out", "add", "add", "out", "non_aliasing",
                     FALSE, <<"out">>),
      NativeFunction("transpose.int", "transpose", "transpose", "functional",
                     "aliasing", FALSE, <<"None">>),
      NativeFunction("transpose_", "transpose", "transpose", "inplace",
                     "aliasing_inplace", FALSE, <<"self">>),
      NativeFunction("transpose_copy.int", "transpose_copy", "transpose",
                     "functional", "non_aliasing", FALSE, <<"None">>),
      NativeFunction("_foo_functional", "_foo_functional", "_foo_functional",
                     "functional", "non_aliasing", TRUE, <<"None">>) }

\* A yaml file: some operators of the universe, some of them tagged canonical.
NativeYamls ==
    { { IF f \in canonical THEN [f EXCEPT !.tags = {"canonical"}] ELSE f :
        f \in present } :
      present \in SUBSET Universe, canonical \in SUBSET Universe }

\* The function of kind k among fs (None when there is none); the yaml
\* declares at most one per signature and kind.
OfKind(fs, k) ==
    IF \E f \in fs : f.kind = k
    THEN Some(CHOOSE f \in fs : f.kind = k)
    ELSE None

OfViewKind(fs, k) ==
    IF \E f \in fs : f.view_kind = k
    THEN Some(CHOOSE f \in fs : f.view_kind = k)
    ELSE None

Single(f) == [type |-> "NativeFunction", f |-> f]

\* torchgen.gen.get_grouped_native_functions: the functions of one signature
\* become a NativeFunctionsGroup when there are several and an out variant is
\* among them, and stay single functions otherwise.
get_grouped_native_functions(native_functions) ==
    UNION { LET d == { f \in native_functions : f.sig = s }
            IN  IF Cardinality(d) > 1 /\ OfKind(d, "out") # None
                                      /\ OfKind(d, "functional") # None
                THEN { [type |-> "NativeFunctionsGroup",
                        functional |-> OfKind(d, "functional")[1],
                        inplace |-> OfKind(d, "inplace"),
                        out |-> OfKind(d, "out")] }
                ELSE { Single(f) : f \in d }
          : s \in { f.sig : f \in native_functions } }

\* torchgen.gen.get_grouped_by_view_native_functions: the functions of one view
\* signature with an aliasing (view) operator among them give a
\* NativeFunctionsViewGroup; the others stay single functions.
get_grouped_by_view_native_functions(native_functions) ==
    UNION { LET d == { f \in native_functions : f.view_sig = s }
                nonAliasing == { f \in d : f.view_kind = "non_aliasing" }
            IN  IF OfViewKind(d, "aliasing") # None
                THEN { [type |-> "NativeFunctionsViewGroup",
                        view |-> OfViewKind(d, "aliasing")[1],
                        view_copy |-> OfKind(nonAliasing, "functional"),
                        view_inplace |-> OfViewKind(d, "aliasing_inplace")] }
                     \cup { Single(f) : f \in
                              { g \in nonAliasing : g.kind # "functional" } }
                ELSE { Single(f) : f \in d }
          : s \in { f.view_sig : f \in native_functions } }

(***************************************************************************)
(* aten_docgen.py: class Dialect.                                          *)
(***************************************************************************)

\* for function in native_functions: if "canonical" in function.tags: ...
\* (a dict: a later item with an equal key replaces the earlier one)
CanonicalOps(native_functions) ==
    LET items == { f \in native_functions : "canonical" \in f.tags }
    IN  [k \in { f.name : f \in items } |-> CHOOSE f \in items : f.name = k]

\* A variant that keeps every group, canonical or not.
StructuredNativeFunctionsUnfiltered(ops, native_functions) ==
    LET items == { g \in get_grouped_native_functions(native_functions) :
                     g.type = "NativeFunctionsGroup" }
    IN  [k \in { g.functional.name : g \in items } |->
            CHOOSE g \in items : g.functional.name = k]

StructuredNativeFunctions(ops, native_functions) ==
    LET items == { g \in get_grouped_native_functions(native_functions) :
                     /\ g.type = "NativeFunctionsGroup"
                     /\ g.functional.name \in DOMAIN ops }
    IN  [k \in { g.functional.name : g \in items } |->
            CHOOSE g \in items : g.functional.name = k]

ViewGroups(ops, native_functions) ==
    LET items == { g \in get_grouped_by_view_native_functions(native_functions) :
                     /\ g.type = "NativeFunctionsViewGroup"
                     /\ g.view.name \in DOMAIN ops }
    IN  [k \in { g.view.name : g \in items } |->
            CHOOSE g \in items : g.view.name = k]

\* Dialect.__init__
DialectInit(name, native_functions) ==
    LET ops == CanonicalOps(native_functions)
    IN  [name |-> name,
         ops |-> ops,
         structured_native_functions |->
             StructuredNativeFunctions(ops, native_functions),
         view_groups |-> ViewGroups(ops, native_functions),
         is_functional |-> \A k \in DOMAIN ops : ops[k].is_functional_fn]

\* What print() writes: a table made by tabulate, an empty line, or a text.
Table(header, rows) == [kind |-> "table", header |-> header, rows |-> rows, text |-> ""]
BlankLine == [kind |-> "blank", header |-> <<>>, rows |-> {}, text |-> ""]
Text(t) == [kind |-> "text", header |-> <<>>, rows |-> {}, text |-> t]

InstallHint == Text("print_tabular relies on the library tabulate")

NameOrNA(opt) == IF opt = None THEN "N/A" ELSE opt[1].name

\* The outcome of a method: the exception it raised ("none" when it returned)
\* and what it printed before that.
Outcome(raised, printed) == [raised |-> raised, printed |-> printed]

\* Dialect.print_tabular; tabulate is an unbound name when its import failed.
print_tabular(d, tabulate) ==
    LET table1 == { << g.functional.name, NameOrNA(g.out), NameOrNA(g.inplace) >> :
                    g \in { d.structured_native_functions[k] :
                            k \in DOMAIN d.structured_native_functions } }
        table2 == { << g.view.name, NameOrNA(g.view_copy), NameOrNA(g.view_inplace) >> :
                    g \in { d.view_groups[k] : k \in DOMAIN d.view_groups } }
    IN  IF ~tabulate
        THEN Outcome("NameError", <<>>)
        ELSE Outcome("none",
                     << Table(<<"functional", "out", "inplace">>, table1),
                        BlankLine,
                        Table(<<"view", "view_copy", "view_inplace">>, table2) >>)

\* A variant that builds the table and does not print it.
print_schema_not_printed(d, tabulate) ==
    IF ~tabulate THEN Outcome("NameError", <<>>) ELSE Outcome("none", <<>>)

\* A variant that prints the rows itself, without tabulate.
print_schema_plain(d, tabulate) ==
    IF ~tabulate
    THEN Outcome("none", << Text("op schema aliased_return_names") >>)
    ELSE Outcome("none",
                 << Table(<<"op", "schema", "aliased_return_names">>, {}) >>)

\* Dialect.print_schema
print_schema(d, tabulate) ==
    LET table == { << op.name, op.sig,
                      IF \A i \in 1..Len(op.aliased_return_names) :
                            op.aliased_return_names[i] = "None"
                      THEN <<"N/A">>
                      ELSE op.aliased_return_names >> :
                   op \in { d.ops[k] : k \in DOMAIN d.ops } }
    IN  IF ~tabulate
        THEN Outcome("NameError", <<>>)
        ELSE Outcome("none",
                     << Table(<<"op", "schema", "aliased_return_names">>, table) >>)

\* print(d.is_functional)
print_is_functional(d) ==
    Outcome("none", << Text(IF d.is_functional THEN "True" ELSE "False") >>)

(***************************************************************************)
(* aten_docgen.py: the module's top-level code and the calls on d.  Once   *)
(* d is constructed its methods may be called in any order, each call      *)
(* recorded with the exception it raised; the order the module itself      *)
(* calls them in is ScriptCalls, and a run of the module is a ScriptRun.   *)
(***************************************************************************)

\* try: from tabulate import tabulate / except ImportError: print(hint)
ImportTabulate ==
    /\ mpc = "import"
    /\ out' = IF tabulateOk THEN out ELSE Append(out, InstallHint)
    /\ mpc' = "construct"
    /\ UNCHANGED <<nativeFns, tabulateOk, dialect, calls>>
    /\ UNCHANGED execVars

\* d = Dialect("aten")
Construct ==
    /\ mpc = "construct"
    /\ dialect' = Some(DialectInit("aten", nativeFns))
    /\ mpc' = "ready"
    /\ UNCHANGED <<nativeFns, tabulateOk, out, calls>>
    /\ UNCHANGED execVars

\* One call on d: its output is printed and its outcome recorded.
CallOp(op, outcome) ==
    /\ mpc = "ready"
    /\ Len(calls) < MaxCalls
    /\ out' = out \o outcome.printed
    /\ calls' = Append(calls, [op |-> op, raised |-> outcome.raised])
    /\ UNCHANGED <<nativeFns, tabulateOk, dialect, mpc>>
    /\ UNCHANGED execVars

PrintTabular == CallOp("print_tabular", print_tabular(dialect[1], tabulateOk))
PrintSchema == CallOp("print_schema", print_schema(dialect[1], tabulateOk))
PrintIsFunctional == CallOp("is_functional", print_is_functional(dialect[1]))

\* aten_docgen.py about to run, on any yaml and with or without tabulate;
\* executorch.py imported and not called.
InitDialect ==
    /\ nativeFns \in NativeYamls
    /\ tabulateOk \in BOOLEAN
    /\ dialect = None
    /\ out = <<>>
    /\ calls = <<>>
    /\ mpc = "import"
    /\ dtypeObjs = ModuleDTypes
    /\ heap = <<>>
    /\ cur = [c \in Callers |-> 0]
    /\ stage = [c \in Callers |-> 0]
    /\ returned = <<>>

NextDialect ==
    \/ ImportTabulate
    \/ Construct
    \/ PrintTabular
    \/ PrintSchema
    \/ PrintIsFunctional

\* The statements after the class, lines 95 to 99, in their order.
ScriptCalls == <<"print_tabular", "print_schema", "is_functional">>

\* The calls made so far are the script's, none of them having raised.
ScriptRun ==
    /\ Len(calls) <= Len(ScriptCalls)
    /\ \A i \in 1..Len(calls) :
          calls[i].op = ScriptCalls[i] /\ calls[i].raised = "none"

FullRun == ScriptRun /\ Len(calls) = Len(ScriptCalls)

(***************************************************************************)
(* The two specifications.  Each script runs alone: the other's state      *)
(* stays as its module leaves it.                                          *)
(***************************************************************************)

SpecExecutorch == InitExecutorch /\ [][NextExecutorch]_vars

SpecDialect == InitDialect /\ [][NextDialect]_vars

(***************************************************************************)
(* Properties of get_executorch_backend_config (SpecExecutorch).           *)
(***************************************************************************)

Range(seq) == { seq[i] : i \in 1..Len(seq) }

\* The number of groups set on heap object i: that of the call building it,
\* all of them once it is returned.
StageOf(i) ==
    IF \E c \in Callers : cur[c] = i
    THEN stage[CHOOSE c \in Callers : cur[c] = i]
    ELSE NumGroups

\* The pattern configs of groups 1..k, one after the other.
RECURSIVE ConfigsOfGroups(_)
ConfigsOfGroups(k) ==
    IF k = 0 THEN <<>> ELSE ConfigsOfGroups(k - 1) \o GroupConfigs(k)

\* The DTypeConfig objects a pattern config refers to.
DTypesOf(p) == [i \in 1..Len(p.dtype_configs) |-> dtypeObjs[p.dtype_configs[i]]]

\* Every pattern config in a table on the heap.
AllPatternConfigs == UNION { Range(heap[i].configs) : i \in 1..Len(heap) }

\* C1: the BackendConfig is named "executorch" and, after k of the six
\* set_backend_pattern_configs calls, its table holds exactly the pattern
\* configs of the first k groups, each entry as its builder produced it: a
\* call adds its group and drops or replaces nothing; a returned config
\* holds all six groups.
C1_TableHoldsEveryGroup ==
    \A i \in 1..Len(heap) :
        /\ heap[i].name = "executorch"
        /\ heap[i].configs = ConfigsOfGroups(StageOf(i))

C1_Witness ==
    /\ returned # <<>>
    /\ Len(heap[returned[1]].configs) = 24
    /\ \E c \in Callers : cur[c] # 0 /\ stage[c] = 4

\* C4: every pattern config of the share-qparams group, one for each of the
\* 11 operators, has observation type OUTPUT_SHARE_OBSERVER_WITH_INPUT and
\* exactly the two default-op dtype configs, symmetric qint8 and quint8,
\* neither with a weight or a bias dtype.
C4_ShareQparamsConfigs ==
    \A i \in 1..Len(heap) :
        StageOf(i) >= 4 =>
            \A j \in 1..Len(share_qparams_ops) :
                \E p \in Range(heap[i].configs) :
                    /\ p.pattern = share_qparams_ops[j]
                    /\ p.observation_type = "OUTPUT_SHARE_OBSERVER_WITH_INPUT"
                    /\ p.dtype_configs =
                          <<"executorch_default_op_qint8_symmetric_dtype_config",
                            "executorch_default_op_quint8_dtype_config">>
                    /\ DTypesOf(p)[1].input_dtype.dtype = "torch.qint8"
                    /\ DTypesOf(p)[1].output_dtype.dtype = "torch.qint8"
                    /\ DTypesOf(p)[2].input_dtype.dtype = "torch.quint8"
                    /\ DTypesOf(p)[2].output_dtype.dtype = "torch.quint8"
                    /\ \A n \in 1..2 :
                          /\ DTypesOf(p)[n].weight_dtype.dtype = "None"
                          /\ DTypesOf(p)[n].bias_dtype = "None"

C4_Witness ==
    /\ Len(share_qparams_ops) = 11
    /\ \E i \in 1..Len(heap) :
          /\ StageOf(i) >= 4
          /\ \E p \in Range(heap[i].configs) : p.pattern = <<"str:squeeze_">>
          /\ \E p \in Range(heap[i].configs) : p.pattern = <<"torch.nn.AdaptiveAvgPool2d">>

\* The weight of dtype config d is restricted to [-127, 127] with a scale of
\* at least 2 ** -12.
WeightRestricted(d) ==
    /\ d.weight_dtype.quant_min_lower_bound = Some(-127)
    /\ d.weight_dtype.quant_max_upper_bound = Some(127)
    /\ d.weight_dtype.scale_min_lower_bound = Some(Pow2Neg(12))

WeightUnrestricted(d) ==
    /\ d.weight_dtype.quant_min_lower_bound = None
    /\ d.weight_dtype.quant_max_upper_bound = None
    /\ d.weight_dtype.scale_min_lower_bound = None

\* C5, as claimed: every dtype config attached to a pattern whose weight
\* dtype is qint8 restricts that weight to [-127, 127], scale >= 2 ** -12.
C5_EveryQint8WeightRestricted ==
    \A p \in AllPatternConfigs :
        \A n \in 1..Len(p.dtype_configs) :
            DTypesOf(p)[n].weight_dtype.dtype = "torch.qint8" =>
                WeightRestricted(DTypesOf(p)[n])

\* C5, amended: a qint8 weight is restricted to [-127, 127], scale >=
\* 2 ** -12, in the dtype configs whose activations are qint8 (the xnnpack
\* compatible symmetric config); in the dtype configs whose input is quint8
\* the qint8 weight carries no bound at all.
C5_SymmetricQint8WeightRestricted ==
    \A p \in AllPatternConfigs :
        \A n \in 1..Len(p.dtype_configs) :
            LET d == DTypesOf(p)[n]
            IN  d.weight_dtype.dtype = "torch.qint8" =>
                   /\ d.input_dtype.dtype \in {"torch.qint8", "torch.quint8"}
                   /\ d.input_dtype.dtype = "torch.qint8" => WeightRestricted(d)
                   /\ d.input_dtype.dtype = "torch.quint8" => WeightUnrestricted(d)

C5_Witness ==
    \E p \in AllPatternConfigs :
        /\ p.pattern = <<"torch.nn.Conv2d">>
        /\ \E n \in 1..Len(p.dtype_configs) :
              /\ DTypesOf(p)[n].weight_dtype.dtype = "torch.qint8"
              /\ DTypesOf(p)[n].input_dtype.dtype = "torch.qint8"
        /\ \E n \in 1..Len(p.dtype_configs) :
              /\ DTypesOf(p)[n].weight_dtype.dtype = "torch.qint8"
              /\ DTypesOf(p)[n].input_dtype.dtype = "torch.quint8"

IsConvPattern(pattern) ==
    pattern[Len(pattern)] \in {Conv2dMetadata.root, Conv2dMetadata.func,
                               Conv2dMetadata.fused_conv_relu}

IsReluConvModulePair(pattern) ==
    /\ Len(pattern) = 2
    /\ pattern[1] \in {"torch.nn.ReLU", "F.relu"}
    /\ pattern[2] = Conv2dMetadata.root

\* C7: in the conv group a pattern sets a fuser method exactly when it is a
\* (relu, conv module) pair; such a pattern sets a fused module, the class
\* its fuser method wraps, and that class is a pattern of the same table
\* with a root module, a reference quantized module and a QAT module.
\* Patterns over the functional conv set no fuser method.
C7_ConvFusion ==
    \A i \in 1..Len(heap) :
        \A p \in Range(heap[i].configs) :
            IsConvPattern(p.pattern) =>
                /\ (p.fuser_method # None) <=> IsReluConvModulePair(p.pattern)
                /\ (p.fused_module # "None") <=> IsReluConvModulePair(p.pattern)
                /\ p.fuser_method # None =>
                      /\ p.fuser_method[1].sequential = p.fused_module
                      /\ \E q \in Range(heap[i].configs) :
                            /\ q.pattern = <<p.fused_module>>
                            /\ q.root_module # "None"
                            /\ q.reference_quantized_module # "None"
                            /\ q.qat_module # "None"

C7_Witness ==
    \E i \in 1..Len(heap) :
        /\ \E p \in Range(heap[i].configs) :
              p.pattern = <<"F.relu", "torch.nn.Conv2d">> /\ p.fuser_method # None
        /\ \E p \in Range(heap[i].configs) :
              p.pattern = <<"torch.nn.ReLU", "torch.nn.Conv2d">> /\ p.fuser_method # None
        /\ \E p \in Range(heap[i].configs) :
              p.pattern = <<"F.relu", "F.conv2d">> /\ p.fuser_method = None

(***************************************************************************)
(* Properties of the Dialect script (SpecDialect).                         *)
(***************************************************************************)

Canonical == { f \in nativeFns : "canonical" \in f.tags }

Tables == { i \in 1..Len(out) : out[i].kind = "table" }

\* C2, as claimed: a full run of the script pretty-prints exactly two tables.
C2_FullRunPrintsTwoTables ==
    FullRun => Cardinality(Tables) = 2

\* C2, amended: a full run of the script pretty-prints exactly three tables,
\* two in print_tabular (with an empty line between them) and one in
\* print_schema, and then the value of is_functional.
C2_FullRunPrintsThreeTables ==
    FullRun =>
        /\ Cardinality(Tables) = 3
        /\ [i \in 1..Len(out) |-> out[i].kind] =
              <<"table", "blank", "table", "table", "text">>
        /\ out[1].header = <<"functional", "out", "inplace">>
        /\ out[3].header = <<"view", "view_copy", "view_inplace">>
        /\ out[4].header = <<"op", "schema", "aliased_return_names">>

C2_Witness ==
    /\ FullRun
    /\ \A i \in Tables : out[i].rows # {}

\* C3: once the Dialect is constructed, ops holds exactly the functions
\* tagged canonical, each under its operator name; every key of
\* structured_native_functions and of view_groups is a key of ops; and every
\* row of every table printed begins with the name of a canonical operator.
C3_OpsAreTheCanonicalFunctions ==
    dialect # None =>
        LET d == dialect[1]
        IN  /\ DOMAIN d.ops = { f.name : f \in Canonical }
            /\ \A k \in DOMAIN d.ops : d.ops[k] \in Canonical /\ d.ops[k].name = k
            /\ DOMAIN d.structured_native_functions \subseteq DOMAIN d.ops
            /\ DOMAIN d.view_groups \subseteq DOMAIN d.ops
            /\ \A k \in DOMAIN d.structured_native_functions :
                  d.structured_native_functions[k].functional.name = k
            /\ \A k \in DOMAIN d.view_groups : d.view_groups[k].view.name = k
            /\ \A i \in Tables : \A row \in out[i].rows : row[1] \in DOMAIN d.ops

C3_Witness ==
    /\ dialect # None
    /\ Cardinality(Tables) = 3
    /\ DOMAIN dialect[1].structured_native_functions = {}
    /\ DOMAIN dialect[1].view_groups # {}
    /\ \E f \in nativeFns : f.name = "add.Tensor" /\ "canonical" \notin f.tags
    /\ \E f \in nativeFns : f.name = "add.out" /\ "canonical" \in f.tags

\* What holds without tabulate whatever print_schema does: the hint is
\* printed in place of the import failing, the Dialect is constructed with
\* its ops populated, and reading is_functional succeeds.
WithoutTabulateBase ==
    /\ mpc # "import" => Len(out) >= 1 /\ out[1] = InstallHint
    /\ mpc = "ready" =>
          /\ dialect # None
          /\ DOMAIN dialect[1].ops = { f.name : f \in Canonical }
    /\ \A i \in 1..Len(calls) :
          /\ calls[i].op = "is_functional" => calls[i].raised = "none"
          /\ calls[i].op = "print_tabular" => calls[i].raised = "NameError"

\* C8, as claimed: without tabulate the hint is printed, construction and
\* is_functional succeed, and print_tabular is the only operation that
\* fails: print_schema works.
C8_OnlyPrintTabularNeedsTabulate ==
    ~tabulateOk =>
        /\ WithoutTabulateBase
        /\ \A i \in 1..Len(calls) :
              calls[i].op = "print_schema" => calls[i].raised = "none"

\* C8, amended: without tabulate the hint is printed, construction and
\* is_functional succeed, and both print_tabular and print_schema raise
\* NameError before printing anything, so no table is ever printed.
C8_BothPrintersNeedTabulate ==
    ~tabulateOk =>
        /\ WithoutTabulateBase
        /\ \A i \in 1..Len(calls) :
              calls[i].op = "print_schema" => calls[i].raised = "NameError"
        /\ Tables = {}

C8_Witness ==
    /\ ~tabulateOk
    /\ Len(calls) = 3
    /\ { calls[i].op : i \in 1..Len(calls) } =
          {"print_tabular", "print_schema", "is_functional"}
    /\ DOMAIN dialect[1].ops # {}
    /\ DOMAIN dialect[1].structured_native_functions # {}

====
